---- MODULE Spec2Model ----
(***************************************************************************)
(* State-machine model of "Deez Nuts.py": the chain downloader thread      *)
(* SpotifyDeezerWildChainDownloader (driver loop, pool workers running     *)
(* process_artist, stop() called from the GUI thread), the seed-URL       *)
(* validation is_valid_url, and the standalone thread ArtistProcessor.     *)
(*                                                                         *)
(* Spec and FairSpec are runs from seed artist 1, WideSpec a run from a    *)
(* seed with three related artists, SelectSpec the selection               *)
(* get_wildly_different_artists run by one worker on any list, and         *)
(* ProcessorSpec the ArtistProcessor thread.                               *)
(*                                                                         *)
(* Catalog calls and the download subprocess are external: each call is a  *)
(* step whose outcome (a result, or an exception) is chosen                *)
(* nondeterministically.  The related-artists relation of the source       *)
(* catalog is a fixed table, RelatedArtists.                               *)
(***************************************************************************)
EXTENDS Integers, Sequences, FiniteSets, TLC

\* ------------------------------------------------------------------ bounds
\* Largest value of the "Max concurrent" setting explored (the GUI allows
\* 1..20); runs are explored with one worker and with this many.
MaxConcurrent == 2
\* Largest value of the "Max depth" setting explored (the GUI allows 1..10);
\* runs are explored with depth 1 and with this depth.
MaxDepth == 2
\* Most calls of one run (catalog lookups, searches, downloads made for the
\* queued artists) that end in failure: an exception, or an empty search result.
MaxFailures == 1

Min(a, b) == IF a < b THEN a ELSE b

\* ------------------------------------------------------------ the catalogs
\* Artist identifiers of the source catalog.
Artists == {1, 2, 3, 4}

\* sp.artist_related_artists(id)['artists']: artist 1 is the seed; 2 and 3
\* both lead back to 1 and on to 4, so the same artist is met under two
\* parents, once already processed (1) and once not (4).
RelatedArtists(a) ==
    CASE a = 1 -> <<2, 3>>
      [] a = 2 -> <<1, 4>>
      [] a = 3 -> <<1, 4>>
      [] a = 4 -> <<2>>
      [] OTHER -> <<2, 3, 4>>

\* The length of the longest list of related artists met from seed 1.
LongestRelated == Len(RelatedArtists(1))

\* The artists sp.artist knows: those the traversal meets and one more.
Catalog == Artists \cup {5}

\* sp.artist(id)['genres'].
Genres(a) ==
    CASE a = 1 -> {"pop"}
      [] a = 2 -> {"pop"}
      [] a = 3 -> {"rock"}
      [] a = 4 -> {"jazz"}
      [] OTHER -> {"pop"}

AllGenres == UNION { Genres(a) : a \in Catalog }

\* The identifier of the first hit of dz.search_artist(name, limit=1).
DeezerIdOf(a) == 10 + a

\* ----------------------------------------------------------- URL handling
\* A URL as urlparse sees it: scheme, netloc (a sequence of labels) and the
\* artist identifier following "artist/" (0: no such path segment).
AllowedDomain == <<"open", "spotify", "com">>

SeedURLs ==
    { [scheme |-> "https", netloc |-> <<"open", "spotify", "com">>, artist |-> 1],
      [scheme |-> "https", netloc |-> <<"open", "spotify", "com">>, artist |-> 0],
      [scheme |-> "https", netloc |-> <<"example", "com">>, artist |-> 1],
      [scheme |-> "", netloc |-> <<>>, artist |-> 1],
      [scheme |-> "https", netloc |-> <<>>, artist |-> 1],
      [scheme |-> "https",
       netloc |-> <<"open", "spotify", "com", "evil", "net">>, artist |-> 4] }

\* Python's `domain in netloc`: domain occurs as a contiguous part of netloc.
Contains(s, d) ==
    \E i \in 0..(Len(s) - Len(d)) : SubSeq(s, i + 1, i + Len(d)) = d

is_valid_url(url, allowed_domains) ==
    /\ url.scheme # ""
    /\ url.netloc # <<>>
    /\ \E domain \in allowed_domains : Contains(url.netloc, domain)


\* ------------------------------------------------------------------- state
VARIABLES
    conf,               \* constructor arguments: spotify_link, max_artists,
                        \* max_concurrent, max_depth, related_limit,
                        \* wild_branching, wildly_different
    is_running,         \* self.is_running
    processed_artists,  \* self.processed_artists
    processed_genres,   \* self.processed_genres
    artist_queue,       \* self.artist_queue: node indices, head first
    nodes,              \* every ArtistNode created, addressed by index
    root_node,          \* self.root_node (0: None)
    lock,               \* self.lock: 0 when free, else the holding worker
    batch_files,        \* self.batch_files
    files,              \* launcher scripts present on disk
    run_pc,             \* position of the driver thread in run()
    batch_left,         \* iterations left of the for loop that fills a batch
    futures,            \* pool workers holding a future of the current batch
    worker,             \* per pool thread: position in process_artist, locals
    finished_count,     \* calls of finished_callback
    output,             \* kinds of line passed to output_callback
    api_called,         \* a catalog call has been made
    failures,           \* failed calls so far (environment, see MaxFailures)
    processor           \* the ArtistProcessor thread, when one is run

vars == << conf, is_running, processed_artists, processed_genres,
           artist_queue, nodes, root_node, lock, batch_files, files, run_pc,
           batch_left, futures, worker, finished_count, output, api_called,
           failures, processor >>

spotify_link == conf.spotify_link
max_artists == conf.max_artists
max_concurrent == conf.max_concurrent
max_depth == conf.max_depth
related_limit == conf.related_limit
wild_branching == conf.wild_branching
wildly_different == conf.wildly_different

Workers == 1..MaxConcurrent

Range(s) == { s[i] : i \in 1..Len(s) }

\* ArtistNode.__init__.  deezer_id 0 is None.  The fields below `deezer_id`
\* record what process_artist did with the node: the outcome of the
\* check-and-insert, the outcome of the target-catalog search, the launches of
\* the download subprocess and the artist_finished_callback calls (the
\* success flag of each).
ArtistNode(spotify_id, depth) ==
    [ spotify_id |-> spotify_id, depth |-> depth, children |-> <<>>,
      deezer_id |-> 0,
      admitted |-> "pending", search |-> "none", launches |-> 0,
      finished |-> <<>> ]

\* A pool thread: its position, the node it was given and the locals of
\* process_artist and get_wildly_different_artists: the artists still to be
\* looped over (todo), related_artists, wildly_different, new_genres, and
\* whether an exception left process_artist.
IdleWorker ==
    [ pc |-> "idle", node |-> 0, todo |-> <<>>, related_artists |-> <<>>,
      wildly_different |-> <<>>, new_genres |-> {}, raised |-> FALSE ]

\* The name in an artist-finished event: the display name of artist a, or
\* "Unknown".
DisplayName(a) == << "name", a >>
Unknown == << "Unknown", 0 >>

\* No ArtistProcessor thread: its arguments, the name once sp.artist has
\* returned it, the launcher script ("none", "exists", "removed"), the kinds
\* of line it logged and its artist-finished events.
NoProcessor ==
    [ pc |-> "none", spotify_id |-> 0, deezer_id |-> 0, name |-> Unknown,
      script |-> "none", output |-> {}, events |-> <<>> ]

\* os.path.join(artist_dir, "download_<deezer id>.bat"); artist_dir is named
\* after the node (its name is that of its source artist).
BatchFilePath(n) == << nodes[n].spotify_id, nodes[n].deezer_id >>

Init ==
    /\ conf \in [ spotify_link : SeedURLs,
                  max_artists : 1..Cardinality(Artists),
                  max_concurrent : {1, MaxConcurrent},
                  max_depth : {1, MaxDepth},
                  related_limit : 1..LongestRelated,
                  wild_branching : BOOLEAN,
                  wildly_different : BOOLEAN ]
    /\ is_running = TRUE
    /\ processed_artists = {}
    /\ processed_genres = {}
    /\ artist_queue = <<>>
    /\ nodes = <<>>
    /\ root_node = 0
    /\ lock = 0
    /\ batch_files = <<>>
    /\ files = {}
    /\ run_pc = "start"
    /\ batch_left = 0
    /\ futures = {}
    /\ worker = [ w \in Workers |-> IdleWorker ]
    /\ finished_count = 0
    /\ output = {}
    /\ api_called = FALSE
    /\ failures = 0
    /\ processor = NoProcessor

\* ------------------------------------------------------------- the driver
\* Variant: nothing is removed.
cleanup_batch_files_Nothing == files

\* cleanup_batch_files: every listed script is removed (a failing os.remove
\* is logged and skipped).
cleanup_batch_files == files \ Range(batch_files)

\* Variant: the except clause reports the error and forgets the signal.
ExceptFinished_Forgotten == finished_count

\* run(), the except clause: the error is reported and finished is signalled.
ExceptFinished == finished_count + 1

\* run(), line 139-143: URL validation.
ValidateURL ==
    /\ run_pc = "start"
    /\ IF is_valid_url(spotify_link, {AllowedDomain})
       THEN /\ run_pc' = "resolve_root"
            /\ UNCHANGED << output, finished_count >>
       ELSE /\ output' = output \cup {"Invalid Spotify URL"}
            /\ finished_count' = finished_count + 1
            /\ run_pc' = "done"
    /\ UNCHANGED << conf, processor, processed_genres, is_running,
                    processed_artists, artist_queue, nodes, root_node, lock,
                    batch_files, files, batch_left, futures, worker,
                    api_called, failures >>

\* run(), line 145-149 and the except clause for them.
ResolveRoot ==
    /\ run_pc = "resolve_root"
    /\ \E outcome \in {"ok", "raise"} :
        LET found == spotify_link.artist # 0
        IN  /\ api_called' = (api_called \/ found)
            /\ IF found /\ outcome = "ok"
               THEN /\ nodes' = Append(nodes, ArtistNode(spotify_link.artist, 0))
                    /\ root_node' = Len(nodes) + 1
                    /\ artist_queue' = Append(artist_queue, Len(nodes) + 1)
                    /\ run_pc' = "loop"
                    /\ UNCHANGED << output, finished_count >>
               ELSE /\ output' = output \cup {"An error occurred"}
                    /\ finished_count' = ExceptFinished
                    /\ run_pc' = "finally"
                    /\ UNCHANGED << nodes, root_node, artist_queue >>
    /\ UNCHANGED << conf, processor, processed_genres, is_running,
                    processed_artists, lock, batch_files, files, batch_left,
                    futures, worker, failures >>

\* run(), line 152: the while condition.
LoopCondition ==
    /\ artist_queue # <<>>
    /\ Cardinality(processed_artists) < max_artists
    /\ is_running

\* Variant: the batch is as long as the queue.
BatchSize_QueueOnly == Len(artist_queue)

\* run(), line 154: the number of iterations of the for loop.
BatchSize == Min(max_concurrent, Len(artist_queue))

\* run(), line 152-154 (a new batch) or 162 (loop left, pool shut down,
\* finished signalled).
LoopTest ==
    /\ run_pc = "loop"
    /\ IF LoopCondition
       THEN /\ batch_left' = BatchSize
            /\ run_pc' = "submit"
            /\ UNCHANGED finished_count
       ELSE /\ finished_count' = finished_count + 1
            /\ run_pc' = "finally"
            /\ UNCHANGED batch_left
    /\ UNCHANGED << conf, processor, processed_genres, is_running,
                    processed_artists, artist_queue, nodes, root_node, lock,
                    batch_files, files, futures, worker, output, api_called,
                    failures >>

\* run(), line 154-157: one iteration of the for loop; the node is handed to
\* an idle pool thread.
Submit ==
    /\ run_pc = "submit"
    /\ batch_left > 0
    /\ IF artist_queue # <<>>
       THEN LET w == CHOOSE v \in Workers :
                        /\ worker[v].pc = "idle"
                        /\ \A u \in Workers : worker[u].pc = "idle" => v <= u
            IN  /\ worker' = [worker EXCEPT ![w] =
                                  [IdleWorker EXCEPT !.pc = "lock",
                                                     !.node = Head(artist_queue)]]
                /\ futures' = futures \cup {w}
                /\ artist_queue' = Tail(artist_queue)
       ELSE UNCHANGED << worker, futures, artist_queue >>
    /\ batch_left' = batch_left - 1
    /\ run_pc' = IF batch_left = 1 THEN "wait" ELSE "submit"
    /\ UNCHANGED << conf, processor, processed_genres, is_running,
                    processed_artists, nodes, root_node, lock, batch_files,
                    files, finished_count, output, api_called, failures >>

\* run(), line 159-160: every future of the batch has completed; an exception
\* that escaped process_artist is re-raised by future.result().
WaitBatch ==
    /\ run_pc = "wait"
    /\ \A w \in futures : worker[w].pc = "done"
    /\ IF \E w \in futures : worker[w].raised
       THEN /\ output' = output \cup {"An error occurred"}
            /\ finished_count' = ExceptFinished
            /\ run_pc' = "finally"
       ELSE /\ run_pc' = "loop"
            /\ UNCHANGED << output, finished_count >>
    /\ worker' = [ w \in Workers |-> IF w \in futures THEN IdleWorker
                                                       ELSE worker[w] ]
    /\ futures' = {}
    /\ UNCHANGED << conf, processor, processed_genres, is_running,
                    processed_artists, artist_queue, nodes, root_node, lock,
                    batch_files, files, batch_left, api_called, failures >>

\* run(), line 167-168: the finally clause.
Finally ==
    /\ run_pc = "finally"
    /\ files' = cleanup_batch_files
    /\ run_pc' = "done"
    /\ UNCHANGED << conf, processor, processed_genres, is_running,
                    processed_artists, artist_queue, nodes, root_node, lock,
                    batch_files, batch_left, futures, worker, finished_count,
                    output, api_called, failures >>

\* The pool threads that are running process_artist.
InFlight == { w \in Workers : worker[w].pc \notin {"idle", "done"} }

\* Variant: stop() signals finished itself.
StopFinished_Signalled == finished_count + 1

\* stop(), line 277-279: finished_callback is not called; the signal is left
\* to run(), which emits it once the pool has been joined.
StopFinished == finished_count

\* stop(), called by the GUI's Stop button, which is enabled from start() to
\* the first of stop and download_finished.
Stop ==
    /\ is_running
    /\ finished_count = 0
    /\ is_running' = FALSE
    /\ files' = cleanup_batch_files
    /\ finished_count' = StopFinished
    /\ UNCHANGED << conf, processor, processed_genres, processed_artists,
                    artist_queue, nodes, root_node, lock, batch_files, run_pc,
                    batch_left, futures, worker, output, api_called,
                    failures >>

\* -------------------------------------------------- process_artist (worker)
\* Variant: the with block is missing and the test and the insert are not
\* mutually exclusive.
LockFree_NoLock == TRUE

\* `with self.lock:` may be entered.
LockFree == lock = 0

\* Variant: the lock is not released when the block is left.
AfterWith_Held(w) == w

\* process_artist, line 171-174: the lock once worker w has left the with
\* block, by the early return or at its end.
AfterWith(w) == 0

\* Variant: the early return looks at the identifier alone.
AlreadyProcessedOrFull_NoCap(n) ==
    nodes[n].spotify_id \in processed_artists

\* process_artist, line 172: the condition of the early return.
AlreadyProcessedOrFull(n) ==
    \/ nodes[n].spotify_id \in processed_artists
    \/ Cardinality(processed_artists) >= max_artists

\* Variant: the identifier is not recorded.
Inserted_Forgotten(n) == processed_artists

\* process_artist, line 174: processed_artists after the add.
Inserted(n) == processed_artists \cup {nodes[n].spotify_id}

\* Variant: the result is used without looking whether it is empty.
FoundArtist_Unchecked(outcome) == outcome # "raise"

\* find_deezer_artist, line 270: a non-empty result yields its first hit;
\* an empty result, or an error of the search, yields None.
FoundArtist(outcome) == outcome = "match"

\* Variant: the relatives are fetched outside the `if deezer_artist:` block.
AfterNoMatch_Branch == "branch"

\* process_artist, line 196: where the worker goes when find_deezer_artist
\* returned None (the else branch only logs).
AfterNoMatch == "done"

\* Variant: the depth test is off by one.
MayBranch_OffByOne(n) ==
    /\ Cardinality(processed_artists) < max_artists
    /\ nodes[n].depth <= max_depth

\* Variant: the cap is not looked at.
BelowCap_Always == TRUE

\* process_artist, line 185: len(self.processed_artists) < self.max_artists.
BelowCap == Cardinality(processed_artists) < max_artists

\* process_artist, line 185: the condition for fetching relatives.
MayBranch(n) ==
    /\ BelowCap
    /\ nodes[n].depth < max_depth

\* process_artist, line 192: the depth given to a child node.
ChildDepth(n) == nodes[n].depth + 1

\* Variant: the loop runs over the whole list.
Truncate_Whole(list) == list

\* process_artist, line 191: related_artists[:self.related_limit].
Truncate(list) == SubSeq(list, 1, Min(related_limit, Len(list)))

\* Variant: the try block ends before the related-artists call.
Caught_LookupOnly(kind) == kind # "related"

\* process_artist, line 198: `except Exception` catches whatever the try
\* block raises.
Caught(kind) == TRUE

\* The worker after an exception of `kind` in the try block of process_artist.
AfterException(w, kind) ==
    IF Caught(kind)
    THEN [worker[w] EXCEPT !.pc = "done"]
    ELSE [worker[w] EXCEPT !.pc = "done", !.raised = TRUE]

\* Variant: the genre set is assigned the new genres instead of updated.
GenresUpdated_Assigned(genres) == genres

\* processed_genres.update(genres): the set after the genres were merged
\* into it; nothing is ever taken out of it.
GenresUpdated(genres) == processed_genres \cup genres

\* Variant: the genres already processed are not taken away.
NewGenres_All(artist) == Genres(artist)

\* get_wildly_different_artists, line 245-248: the genres of the artist that
\* are not in processed_genres.
NewGenres(artist) == Genres(artist) \ processed_genres

\* The outcomes a call can have: any of `all` while failures may still
\* happen, `ok` alone afterwards.
Outcomes(all, ok) == IF failures < MaxFailures THEN all ELSE {ok}

\* process_artist, line 171-173: the lock is taken and the test is made; the
\* early return releases the lock.
Enter(w) ==
    LET n == worker[w].node
    IN  /\ worker[w].pc = "lock"
        /\ LockFree
        /\ IF AlreadyProcessedOrFull(n)
           THEN /\ nodes' = [nodes EXCEPT ![n].admitted = "rejected"]
                /\ worker' = [worker EXCEPT ![w].pc = "done"]
                /\ lock' = AfterWith(w)
           ELSE /\ lock' = w
                /\ worker' = [worker EXCEPT ![w].pc = "insert"]
                /\ UNCHANGED nodes
        /\ UNCHANGED << conf, processor, processed_genres, is_running,
                        processed_artists, artist_queue, root_node,
                        batch_files, files, run_pc, batch_left, futures,
                        finished_count, output, api_called, failures >>

\* process_artist, line 174: the insert; the with block ends.
Insert(w) ==
    LET n == worker[w].node
    IN  /\ worker[w].pc = "insert"
        /\ processed_artists' = Inserted(n)
        /\ lock' = AfterWith(w)
        /\ nodes' = [nodes EXCEPT ![n].admitted = "admitted"]
        /\ worker' = [worker EXCEPT ![w].pc = "resolve"]
        /\ UNCHANGED << conf, processor, processed_genres, is_running,
                        artist_queue, root_node, batch_files, files, run_pc,
                        batch_left, futures, finished_count, output,
                        api_called, failures >>

\* process_artist, line 177-181 and 196-197, with find_deezer_artist:
\* sp.artist returns or raises; the search then returns a hit, returns
\* nothing, or raises (caught in find_deezer_artist, which returns None).
Resolve(w) ==
    LET n == worker[w].node
    IN  /\ worker[w].pc = "resolve"
        /\ api_called' = TRUE
        /\ \E outcome \in Outcomes({"sp_raise", "match", "nomatch", "raise"},
                                    "match") :
            /\ failures' = IF outcome = "match" THEN failures ELSE failures + 1
            /\ IF outcome = "sp_raise"
               THEN /\ worker' = [worker EXCEPT
                                     ![w] = AfterException(w, "sp_artist")]
                    /\ output' = output \cup {"Error processing artist"}
                    /\ UNCHANGED nodes
               ELSE IF FoundArtist(outcome)
               THEN /\ nodes' = [nodes EXCEPT
                                   ![n].search = outcome,
                                   ![n].deezer_id = DeezerIdOf(nodes[n].spotify_id)]
                    /\ worker' = [worker EXCEPT ![w].pc = "download"]
                    /\ UNCHANGED output
               ELSE /\ nodes' = [nodes EXCEPT ![n].search = outcome]
                    /\ worker' = [worker EXCEPT ![w].pc = AfterNoMatch]
                    /\ output' = output \cup
                           ( {"Could not find Deezer artist"} \cup
                             IF outcome = "raise"
                             THEN {"Error finding Deezer artist"} ELSE {} )
        /\ UNCHANGED << conf, processor, processed_genres, is_running,
                        processed_artists, artist_queue, root_node, lock,
                        batch_files, files, run_pc, batch_left, futures,
                        finished_count >>

\* download_artist, line 203-218: the directory and the launcher script are
\* made, the script is listed and the subprocess is started.  An error before
\* the script exists, or of Popen, makes download_artist return False, and
\* process_artist (line 183) reports the failure.
DownloadStart(w) ==
    LET n == worker[w].node
    IN  /\ worker[w].pc = "download"
        /\ \E outcome \in Outcomes({"ok", "raise_open", "raise_popen"}, "ok") :
            /\ failures' = IF outcome = "ok" THEN failures ELSE failures + 1
            /\ IF outcome = "raise_open"
               THEN UNCHANGED << files, batch_files >>
               ELSE /\ files' = files \cup {BatchFilePath(n)}
                    /\ batch_files' = Append(batch_files, BatchFilePath(n))
            /\ IF outcome = "ok"
               THEN /\ nodes' = [nodes EXCEPT ![n].launches = @ + 1]
                    /\ worker' = [worker EXCEPT ![w].pc = "wait"]
                    /\ UNCHANGED output
               ELSE /\ nodes' = [nodes EXCEPT ![n].finished = Append(@, FALSE)]
                    /\ worker' = [worker EXCEPT ![w].pc = "branch"]
                    /\ output' = output \cup {"Error downloading artist"}
        /\ UNCHANGED << conf, processor, processed_genres, is_running,
                        processed_artists, artist_queue, root_node, lock,
                        run_pc, batch_left, futures, finished_count,
                        api_called >>

\* download_artist, line 220-224: the subprocess returns; its exit status is
\* not looked at and download_artist returns True, which process_artist
\* (line 183) reports.
DownloadWait(w) ==
    LET n == worker[w].node
    IN  /\ worker[w].pc = "wait"
        /\ nodes' = [nodes EXCEPT ![n].finished = Append(@, TRUE)]
        /\ worker' = [worker EXCEPT ![w].pc = "branch"]
        /\ output' = output \cup {"Successfully downloaded artist"}
        /\ UNCHANGED << conf, processor, processed_genres, is_running,
                        processed_artists, artist_queue, root_node, lock,
                        batch_files, files, run_pc, batch_left, futures,
                        finished_count, api_called, failures >>

\* random.shuffle: any order of the list.
Shuffles(list) ==
    { [ i \in DOMAIN list |-> list[f[i]] ] : f \in Permutations(DOMAIN list) }

\* random.sample(pool, k): k entries of the pool at distinct places, in any
\* order.
Samples(pool, k) ==
    { [ i \in 1..k |-> pool[f[i]] ] :
        f \in { g \in [1..k -> DOMAIN pool] :
                  \A i, j \in 1..k : i # j => g[i] # g[j] } }

\* get_wildly_different_artists, line 261-265: what is returned once the
\* loop has ended with `kept`: topped up with a sample of the others when
\* fewer than related_limit were kept.
TopUps(kept, related) ==
    LET remaining == SelectSeq(related, LAMBDA a : a \notin Range(kept))
    IN  IF Len(kept) < related_limit
        THEN { kept \o smp :
                 smp \in Samples(remaining,
                                 Min(Len(remaining), related_limit - Len(kept))) }
        ELSE { kept }

\* The worker once the relatives to enqueue are known (line 191).
Enqueueing(w, list) ==
    [worker[w] EXCEPT !.todo = Truncate(list),
                      !.related_artists = <<>>,
                      !.wildly_different = <<>>,
                      !.new_genres = {},
                      !.pc = IF Truncate(list) = <<>> THEN "done" ELSE "put"]

\* process_artist, line 185-190: the test, the related-artists call, which
\* returns the list or raises, and the shuffle; with wildly_different,
\* get_wildly_different_artists is entered (line 238-241).
Branch(w) ==
    LET n == worker[w].node
    IN  /\ worker[w].pc = "branch"
        /\ IF MayBranch(n)
           THEN /\ api_called' = TRUE
                /\ \E outcome \in Outcomes({"ok", "raise"}, "ok") :
                    /\ failures' = IF outcome = "ok" THEN failures
                                                     ELSE failures + 1
                    /\ IF outcome = "ok"
                       THEN /\ \E list \in
                                 IF wild_branching
                                 THEN Shuffles(RelatedArtists(nodes[n].spotify_id))
                                 ELSE {RelatedArtists(nodes[n].spotify_id)} :
                                 worker' = [worker EXCEPT ![w] =
                                    IF wildly_different /\ list # <<>>
                                    THEN [worker[w] EXCEPT
                                            !.pc = "scan",
                                            !.todo = list,
                                            !.related_artists = list]
                                    ELSE Enqueueing(w, list)]
                            /\ processed_genres' =
                                 IF wildly_different
                                 THEN GenresUpdated(Genres(nodes[n].spotify_id))
                                 ELSE processed_genres
                            /\ UNCHANGED output
                       ELSE /\ worker' = [worker EXCEPT
                                             ![w] = AfterException(w, "related")]
                            /\ output' = output \cup {"Error processing artist"}
                            /\ UNCHANGED processed_genres
           ELSE /\ worker' = [worker EXCEPT ![w].pc = "done"]
                /\ UNCHANGED << output, api_called, failures,
                                processed_genres >>
        /\ UNCHANGED << conf, processor, is_running, processed_artists,
                        artist_queue, nodes, root_node, lock, batch_files,
                        files, run_pc, batch_left, futures, finished_count >>

\* get_wildly_different_artists, line 242-248 and 254-258: the next artist is
\* looked up (the lookup returns or raises; an error is logged and the artist
\* skipped) and its genres are compared with processed_genres.  The loop goes
\* on with the next artist, or has ended and the result is returned.
Scan(w) ==
    LET artist == Head(worker[w].todo)
        rest == Tail(worker[w].todo)
        kept == worker[w].wildly_different
    IN  /\ worker[w].pc = "scan"
        /\ api_called' = TRUE
        /\ \E outcome \in Outcomes({"ok", "raise"}, "ok") :
            LET new_genres == IF outcome = "ok" THEN NewGenres(artist)
                                                ELSE {}
            IN  /\ failures' = IF outcome = "ok" THEN failures
                                                 ELSE failures + 1
                /\ output' = IF outcome = "ok" THEN output
                             ELSE output \cup {"Error processing related artist"}
                /\ IF new_genres # {}
                   THEN worker' = [worker EXCEPT ![w].pc = "keep",
                                                 ![w].new_genres = new_genres]
                   ELSE IF rest # <<>>
                   THEN worker' = [worker EXCEPT ![w].todo = rest]
                   ELSE \E list \in TopUps(kept, worker[w].related_artists) :
                            worker' = [worker EXCEPT ![w] = Enqueueing(w, list)]
        /\ UNCHANGED << conf, processor, processed_genres, is_running,
                        processed_artists, artist_queue, nodes, root_node,
                        lock, batch_files, files, run_pc, batch_left, futures,
                        finished_count >>

\* get_wildly_different_artists, line 250-255: the artist is kept and its new
\* genres are merged into processed_genres; the loop goes on, or has ended
\* (enough kept, or no artist left) and the result is returned.
Keep(w) ==
    LET artist == Head(worker[w].todo)
        rest == Tail(worker[w].todo)
        kept == Append(worker[w].wildly_different, artist)
    IN  /\ worker[w].pc = "keep"
        /\ processed_genres' = GenresUpdated(worker[w].new_genres)
        /\ IF Len(kept) < related_limit /\ rest # <<>>
           THEN worker' = [worker EXCEPT ![w].pc = "scan",
                                         ![w].todo = rest,
                                         ![w].wildly_different = kept,
                                         ![w].new_genres = {}]
           ELSE \E list \in TopUps(kept, worker[w].related_artists) :
                    worker' = [worker EXCEPT ![w] = Enqueueing(w, list)]
        /\ UNCHANGED << conf, processor, is_running, processed_artists,
                        artist_queue, nodes, root_node, lock, batch_files,
                        files, run_pc, batch_left, futures, finished_count,
                        output, api_called, failures >>

\* process_artist, line 192-195: one iteration of the for loop (the child is
\* created, linked and queued); after the last one the tree update is sent.
PutChild(w) ==
    LET n == worker[w].node
        c == Len(nodes) + 1
    IN  /\ worker[w].pc = "put"
        /\ nodes' = [ Append(nodes, ArtistNode(Head(worker[w].todo), ChildDepth(n)))
                        EXCEPT ![n].children = Append(@, c) ]
        /\ artist_queue' = Append(artist_queue, c)
        /\ worker' = [worker EXCEPT
                        ![w].todo = Tail(@),
                        ![w].pc = IF Len(worker[w].todo) = 1 THEN "done"
                                                              ELSE "put"]
        /\ UNCHANGED << conf, processor, processed_genres, is_running,
                        processed_artists, root_node, lock, batch_files,
                        files, run_pc, batch_left, futures, finished_count,
                        output, api_called, failures >>

Driver == ValidateURL \/ ResolveRoot \/ LoopTest \/ Submit \/ WaitBatch \/ Finally

Worker(w) ==
    \/ Enter(w) \/ Insert(w) \/ Resolve(w) \/ DownloadStart(w)
    \/ DownloadWait(w) \/ Branch(w) \/ Scan(w) \/ Keep(w) \/ PutChild(w)

Next == Driver \/ Stop \/ \E w \in Workers : Worker(w)

Spec == Init /\ [][Next]_vars

\* The driver thread and every pool thread keep running while they can take a
\* step (the operating system schedules every runnable thread); stop() is a
\* user action and may never happen.
FairSpec ==
    /\ Spec
    /\ WF_vars(Driver)
    /\ \A w \in Workers : WF_vars(Worker(w))

\* ------------------------------------------------- a run from a wider seed
\* A run seeded with artist 5, which no other artist leads to and which has
\* three related artists, all of them taken (related_limit 3), two workers
\* and a cap and a depth that the run does not reach; no call fails.
WideInit ==
    /\ conf \in [ spotify_link :
                     { [scheme |-> "https", netloc |-> AllowedDomain,
                        artist |-> 5] },
                  max_artists : { Cardinality(Catalog) + 1 },
                  max_concurrent : { 2 },
                  max_depth : { 3 },
                  related_limit : { Len(RelatedArtists(5)) },
                  wild_branching : { FALSE },
                  wildly_different : BOOLEAN ]
    /\ is_running = TRUE
    /\ processed_artists = {}
    /\ processed_genres = {}
    /\ artist_queue = <<>>
    /\ nodes = <<>>
    /\ root_node = 0
    /\ lock = 0
    /\ batch_files = <<>>
    /\ files = {}
    /\ run_pc = "start"
    /\ batch_left = 0
    /\ futures = {}
    /\ worker = [ w \in Workers |-> IdleWorker ]
    /\ finished_count = 0
    /\ output = {}
    /\ api_called = FALSE
    /\ failures = MaxFailures
    /\ processor = NoProcessor

WideSpec == WideInit /\ [][Next]_vars

\* --------------------------------- get_wildly_different_artists on its own
\* The limits the selection is run with.
SelectLimits == {1, 2, 3}

\* The lists of artists that hold no artist twice.
CandidateLists ==
    UNION { { list \in [1..k -> Catalog] :
                \A i, j \in 1..k : i # j => list[i] # list[j] } :
            k \in 1..Cardinality(Catalog) }

\* One worker is inside get_wildly_different_artists, at the head of its
\* loop (line 242), for the root artist: any list of related artists, any
\* processed_genres and any limit; the lookups of the loop may fail or not.
SelectInit ==
    /\ \E limit \in SelectLimits :
          conf = [ spotify_link |->
                     [scheme |-> "https", netloc |-> AllowedDomain, artist |-> 1],
                   max_artists |-> Cardinality(Artists),
                   max_concurrent |-> 1,
                   max_depth |-> 1,
                   related_limit |-> limit,
                   wild_branching |-> FALSE,
                   wildly_different |-> TRUE ]
    /\ is_running = TRUE
    /\ processed_artists = {1}
    /\ processed_genres \in SUBSET AllGenres
    /\ artist_queue = <<>>
    /\ nodes = << [ ArtistNode(1, 0) EXCEPT !.deezer_id = DeezerIdOf(1),
                                            !.admitted = "admitted",
                                            !.search = "match",
                                            !.launches = 1,
                                            !.finished = <<TRUE>> ] >>
    /\ root_node = 1
    /\ lock = 0
    /\ batch_files = << <<1, DeezerIdOf(1)>> >>
    /\ files = { <<1, DeezerIdOf(1)>> }
    /\ run_pc = "wait"
    /\ batch_left = 0
    /\ futures = {1}
    /\ \E list \in CandidateLists :
          worker = [ w \in Workers |->
                       IF w = 1
                       THEN [ IdleWorker EXCEPT !.pc = "scan",
                                                !.node = 1,
                                                !.todo = list,
                                                !.related_artists = list ]
                       ELSE IdleWorker ]
    /\ finished_count = 0
    /\ output = {"Successfully downloaded artist"}
    /\ api_called = TRUE
    /\ failures \in {0, MaxFailures}
    /\ processor = NoProcessor

SelectNext == Scan(1) \/ Keep(1)

SelectSpec == SelectInit /\ [][SelectNext]_vars

\* ------------------------------------------- ArtistProcessor (own thread)
\* Everything of the chain downloader, which the thread does not touch.
chain == << conf, is_running, processed_artists, processed_genres,
            artist_queue, nodes, root_node, lock, batch_files, files, run_pc,
            batch_left, futures, worker, finished_count, output, api_called,
            failures >>

\* An ArtistProcessor has been constructed for any artist of the source
\* catalog and any identifier of the target catalog, and started; no chain
\* downloader runs.
ProcessorInit ==
    /\ processor \in
          { [ NoProcessor EXCEPT !.pc = "sp_artist",
                                 !.spotify_id = a,
                                 !.deezer_id = DeezerIdOf(b) ] :
              a \in Catalog, b \in Catalog }
    /\ conf = [ spotify_link |->
                   [scheme |-> "https", netloc |-> AllowedDomain, artist |-> 1],
               max_artists |-> 1,
               max_concurrent |-> 1,
               max_depth |-> 1,
               related_limit |-> 1,
               wild_branching |-> FALSE,
               wildly_different |-> FALSE ]
    /\ is_running = FALSE
    /\ processed_artists = {}
    /\ processed_genres = {}
    /\ artist_queue = <<>>
    /\ nodes = <<>>
    /\ root_node = 0
    /\ lock = 0
    /\ batch_files = <<>>
    /\ files = {}
    /\ run_pc = "start"
    /\ batch_left = 0
    /\ futures = {}
    /\ worker = [ w \in Workers |-> IdleWorker ]
    /\ finished_count = 0
    /\ output = {}
    /\ api_called = FALSE
    /\ failures = 0

\* Variant: the except branch only logs, as that of process_artist does.
ProcessorExcept_LogOnly(p) ==
    [p EXCEPT !.output = @ \cup {"Error processing artist"},
              !.pc = "done"]

\* ArtistProcessor.run, line 71-74: the except branch logs and reports
\* "Unknown" and failure.
ProcessorExcept(p) ==
    [p EXCEPT !.output = @ \cup {"Error processing artist"},
              !.events = Append(@, << Unknown, FALSE >>),
              !.pc = "done"]

\* ArtistProcessor.run, line 69-70: download_artist has returned `success`,
\* which is reported with the name sp.artist gave.
ProcessorReported(p, success) ==
    [p EXCEPT !.events = Append(@, << p.name, success >>),
              !.pc = "done"]

\* ArtistProcessor.run, line 65: sp.artist returns the artist or raises.
ProcessorSpArtist ==
    /\ processor.pc = "sp_artist"
    /\ \E outcome \in {"ok", "raise"} :
          processor' =
              IF outcome = "ok"
              THEN [processor EXCEPT !.name = DisplayName(processor.spotify_id),
                                     !.pc = "get_artist"]
              ELSE ProcessorExcept(processor)
    /\ UNCHANGED chain

\* ArtistProcessor.run, line 66-68: dz.get_artist returns the artist, and the
\* start is logged, or raises.
ProcessorGetArtist ==
    /\ processor.pc = "get_artist"
    /\ \E outcome \in {"ok", "raise"} :
          processor' =
              IF outcome = "ok"
              THEN [processor EXCEPT !.output = @ \cup {"Processing artist"},
                                     !.pc = "download"]
              ELSE ProcessorExcept(processor)
    /\ UNCHANGED chain

\* ArtistProcessor.download_artist, line 77-91 and 101-104: the directory and
\* the script are made and the subprocess is started; an error before the
\* script exists, or of Popen, is logged and False is returned.
ProcessorDownloadStart ==
    /\ processor.pc = "download"
    /\ \E outcome \in {"ok", "raise_open", "raise_popen"} :
          LET made == IF outcome = "raise_open"
                      THEN processor
                      ELSE [processor EXCEPT !.script = "exists"]
          IN  processor' =
                  IF outcome = "ok"
                  THEN [made EXCEPT !.pc = "wait"]
                  ELSE ProcessorReported(
                           [made EXCEPT !.output =
                                            @ \cup {"Error downloading artist"}],
                           FALSE)
    /\ UNCHANGED chain

\* ArtistProcessor.download_artist, line 93-104: the subprocess returns and
\* the script is removed, True is returned; an error of os.remove is logged
\* and False is returned.
ProcessorDownloadWait ==
    /\ processor.pc = "wait"
    /\ \E outcome \in {"ok", "raise_remove"} :
          processor' =
              IF outcome = "ok"
              THEN ProcessorReported(
                       [processor EXCEPT
                            !.script = "removed",
                            !.output = @ \cup {"Successfully downloaded artist"}],
                       TRUE)
              ELSE ProcessorReported(
                       [processor EXCEPT
                            !.output = @ \cup {"Error downloading artist"}],
                       FALSE)
    /\ UNCHANGED chain

ProcessorNext ==
    \/ ProcessorSpArtist
    \/ ProcessorGetArtist
    \/ ProcessorDownloadStart
    \/ ProcessorDownloadWait

ProcessorSpec == ProcessorInit /\ [][ProcessorNext]_vars

\* ------------------------------------------------------------- properties
NodeIds == 1..Len(nodes)

\* The nodes that passed the check-and-insert with identifier a.
AdmittedAs(a) ==
    { n \in NodeIds : nodes[n].spotify_id = a /\ nodes[n].admitted = "admitted" }

\* Nothing was done for node n beyond the check-and-insert.
NoWork(n) ==
    /\ nodes[n].search = "none"
    /\ nodes[n].deezer_id = 0
    /\ nodes[n].launches = 0
    /\ nodes[n].finished = <<>>
    /\ nodes[n].children = <<>>

\* C1: in every reachable state the processed-set holds at most max_artists
\* identifiers.
C1_ProcessedWithinCap ==
    Cardinality(processed_artists) <= max_artists

\* C1, witness: two workers ran concurrently, the cap was reached by one of
\* them and the other was turned away by the cap alone.
C1_Witness ==
    /\ Cardinality(processed_artists) = max_artists
    /\ \E w \in futures :
          /\ worker[w].pc = "done"
          /\ nodes[worker[w].node].admitted = "rejected"
          /\ nodes[worker[w].node].spotify_id \notin processed_artists
    /\ \E w \in futures : nodes[worker[w].node].admitted = "admitted"

\* The workers of the current batch whose node carries identifier a.
Contenders(a) ==
    { w \in futures : nodes[worker[w].node].spotify_id = a }

\* C2 as stated: whenever several workers of a batch have run the
\* check-and-insert on nodes with the same identifier, exactly one of them
\* passed it.
C2_ExactlyOneWinner ==
    \A a \in Artists :
        ( /\ Cardinality(Contenders(a)) >= 2
          /\ \A w \in Contenders(a) : nodes[worker[w].node].admitted # "pending" )
        => Cardinality({ w \in Contenders(a) :
                           nodes[worker[w].node].admitted = "admitted" }) = 1

\* C2, amended: of all the nodes carrying one identifier at most one passes
\* the check-and-insert (one does exactly when the identifier is in the
\* processed-set); a node is turned away only if its identifier is already
\* processed or the cap is reached, and nothing is done for it.
C2_AtMostOneWinner ==
    /\ \A a \in Artists :
          Cardinality(AdmittedAs(a)) = IF a \in processed_artists THEN 1 ELSE 0
    /\ \A n \in NodeIds :
          nodes[n].admitted = "rejected" =>
              /\ \/ nodes[n].spotify_id \in processed_artists
                 \/ Cardinality(processed_artists) >= max_artists
              /\ NoWork(n)

\* C2, witness: two workers of one batch hold nodes with the same identifier;
\* one passed the check-and-insert, the other was turned away.
C2_Witness ==
    \E w1, w2 \in futures :
        /\ w1 # w2
        /\ nodes[worker[w1].node].spotify_id = nodes[worker[w2].node].spotify_id
        /\ nodes[worker[w1].node].admitted = "admitted"
        /\ nodes[worker[w2].node].admitted = "rejected"

\* C3: the root has depth 0, every child has its parent's depth plus 1, and
\* no node deeper than max_depth exists (every node made is queued at once).
C3_Depths ==
    /\ root_node # 0 => nodes[root_node].depth = 0
    /\ \A n \in NodeIds :
          /\ nodes[n].depth <= max_depth
          /\ \A i \in 1..Len(nodes[n].children) :
                nodes[nodes[n].children[i]].depth = nodes[n].depth + 1

\* C3, witness: a node at the deepest level allowed, below a child of the
\* root, is on the queue.
C3_Witness ==
    \E i \in 1..Len(artist_queue) :
        /\ nodes[artist_queue[i]].depth = max_depth
        /\ max_depth > 1

\* Node n passed the check-and-insert and no worker is processing it any more.
Completed(n) ==
    /\ nodes[n].admitted = "admitted"
    /\ \A w \in Workers : worker[w].node = n => worker[w].pc = "done"

\* C4: a loop test that reads the cleared flag starts no batch; finished is
\* signalled only when no worker is in flight; and a worker that ends its
\* artist after stop() has reported the artist's outcome.
C4_CancellationLetsWorkersReport ==
    [][ /\ (run_pc = "loop" /\ ~is_running) => run_pc' # "submit"
        /\ finished_count' > finished_count => InFlight = {}
        /\ \A w \in InFlight :
              ( /\ ~is_running
                /\ worker'[w].pc = "done"
                /\ nodes'[worker[w].node].admitted = "admitted" )
              => Len(nodes'[worker[w].node].finished) = 1 ]_vars

\* The URL is one the claim wants rejected: no scheme, no host, or a host
\* that is not the allow-listed domain.
ForeignURL ==
    \/ spotify_link.scheme = ""
    \/ spotify_link.netloc = <<>>
    \/ spotify_link.netloc # AllowedDomain

\* No root node, nothing queued, no worker dispatched, no download.
NoTraversal ==
    /\ root_node = 0
    /\ nodes = <<>>
    /\ artist_queue = <<>>
    /\ \A w \in Workers : worker[w].pc = "idle"
    /\ batch_files = <<>>
    /\ files = {}

\* C6: a run on a foreign URL makes no catalog call and does no work, it only
\* logs the rejection; a run whose root artist cannot be resolved does no work
\* either.
C6_ForeignURLRejected ==
    /\ ForeignURL =>
          /\ ~api_called
          /\ NoTraversal
          /\ output \subseteq {"Invalid Spotify URL"}
    /\ "An error occurred" \in output => NoTraversal

\* C7: once a worker is done with a node that passed the check-and-insert,
\* exactly one artist-finished event was sent for it, with success exactly
\* when the download subprocess ran to its end.
C7_OneFinishedEventPerNode ==
    \A n \in NodeIds :
        Completed(n) =>
            /\ Len(nodes[n].finished) = 1
            /\ nodes[n].finished[1] = (nodes[n].launches = 1)

\* Relatives of node n have been fetched: children exist or are being queued.
Branched(n) ==
    \/ nodes[n].children # <<>>
    \/ \E w \in Workers : worker[w].node = n /\ worker[w].pc = "put"

\* C8 as stated: relatives are fetched and queued only for a node whose
\* download succeeded.
C8_ChildrenOnlyAfterSuccess ==
    \A n \in NodeIds : Branched(n) => nodes[n].finished = <<TRUE>>

\* C8, amended: relatives are fetched and queued only for a node that was
\* resolved on the target catalog and whose download outcome (success or
\* failure) was reported; a node whose resolution failed gets no children.
C8_ChildrenOnlyAfterResolution ==
    \A n \in NodeIds :
        Branched(n) =>
            /\ nodes[n].search = "match"
            /\ nodes[n].deezer_id # 0
            /\ Len(nodes[n].finished) = 1

\* C8, witness: a node whose download failed has children on record.
C8_Witness ==
    \E n \in NodeIds :
        /\ nodes[n].children # <<>>
        /\ nodes[n].finished = <<FALSE>>

\* C9: for a node whose search found nothing or raised, the downloader is not
\* started and no script is made, deezer_id stays None, and no error reaches
\* the driver.
C9_NoMatchNoDownload ==
    /\ \A n \in NodeIds :
          nodes[n].search \in {"nomatch", "raise"} =>
              /\ nodes[n].launches = 0
              /\ nodes[n].deezer_id = 0
              /\ \A i \in 1..Len(batch_files) :
                    batch_files[i][1] # nodes[n].spotify_id
    /\ \A w \in Workers : ~worker[w].raised

\* C9, witness: with one worker at a time, a node's search found nothing and
\* a node queued behind it was then downloaded.
C9_Witness ==
    /\ max_concurrent = 1
    /\ \E n, m \in NodeIds :
          /\ n < m
          /\ nodes[n].search = "nomatch"
          /\ nodes[m].launches = 1

\* C10: no error of a worker reaches the driver, and the run is finished only
\* with the queue empty, the cap reached or cancellation requested.
C10_FailuresAreLocal ==
    /\ \A w \in Workers : ~worker[w].raised
    /\ "An error occurred" \in output => root_node = 0
    /\ finished_count > 0 =>
          \/ artist_queue = <<>>
          \/ Cardinality(processed_artists) >= max_artists
          \/ ~is_running

\* C10, witness: with one worker at a time, a call made for one node failed
\* and a later batch is in flight.
C10_Witness ==
    /\ max_concurrent = 1
    /\ failures > 0
    /\ is_running
    /\ \E n \in NodeIds : Completed(n) /\ nodes[n].finished # <<TRUE>>
                                       /\ nodes[n].children = <<>>
    /\ \E w \in InFlight : nodes[worker[w].node].admitted = "admitted"

\* C5: every run comes to signal finished, and signals it once.
C5_FinishedExactlyOnce == <>[](finished_count = 1)

\* C5, witness: a cancelled run, with an artist downloaded, has signalled
\* finished and ended.
C5_Witness ==
    /\ finished_count = 1
    /\ run_pc = "done"
    /\ ~is_running
    /\ \E n \in NodeIds : nodes[n].finished = <<TRUE>>

\* The identifier of the i-th child of node n, in the order they were queued.
ChildId(n, i) == nodes[nodes[n].children[i]].spotify_id

\* C11: whatever the two flags, a node has at most related_limit children,
\* each of them one of the related artists returned for the node, and none
\* of them twice.
C11_ChildrenFromCandidates ==
    \A n \in NodeIds :
        /\ Len(nodes[n].children) <= related_limit
        /\ \A i \in 1..Len(nodes[n].children) :
              /\ ChildId(n, i) \in Range(RelatedArtists(nodes[n].spotify_id))
              /\ \A j \in 1..Len(nodes[n].children) :
                    i # j => ChildId(n, i) # ChildId(n, j)

\* C11, witness: with both flags set and a limit below the number of related
\* artists returned, a node has got as many children as the limit allows,
\* the first of them not the first of the list returned.
C11_Witness ==
    /\ wild_branching
    /\ wildly_different
    /\ \E n \in NodeIds :
          /\ \A w \in Workers : worker[w].node = n => worker[w].pc = "done"
          /\ Len(nodes[n].children) = related_limit
          /\ related_limit < Len(RelatedArtists(nodes[n].spotify_id))
          /\ ChildId(n, 1) # RelatedArtists(nodes[n].spotify_id)[1]

\* One step of the worker inside get_wildly_different_artists, as C12 has it.
\* kept is what has been kept when the step is over, result what is returned.
SelectStep ==
    LET w == worker[1]
        after == worker'[1]
        artist == Head(w.todo)
        kept == IF w.pc = "keep" THEN Append(w.wildly_different, artist)
                                 ELSE w.wildly_different
        result == after.todo
    IN  /\ (w.pc = "scan" /\ failures' = failures) =>
              ( after.pc = "keep" <=>
                  \E genre \in Genres(artist) : genre \notin processed_genres )
        /\ w.pc = "keep" => Genres(artist) \subseteq processed_genres'
        /\ (w.pc \in {"scan", "keep"} /\ after.pc = "scan") =>
              /\ Len(kept) < related_limit
              /\ after.todo = Tail(w.todo)
              /\ after.wildly_different = kept
        /\ (w.pc \in {"scan", "keep"} /\ after.pc \in {"put", "done"}) =>
              /\ Len(kept) = related_limit \/ Tail(w.todo) = <<>>
              /\ Len(result) = Min(related_limit, Len(w.related_artists))
              /\ SubSeq(result, 1, Len(kept)) = kept
              /\ \A i \in (Len(kept) + 1)..Len(result) :
                    result[i] \in Range(w.related_artists) \ Range(kept)
              /\ \A i, j \in 1..Len(result) : i # j => result[i] # result[j]

\* The example of C12: five artists with genres pop, pop, rock, jazz and pop,
\* a limit of 3 and processed_genres {pop}; every lookup returns.
ExampleStart ==
    /\ related_limit = 3
    /\ worker[1].pc = "scan"
    /\ worker[1].todo = <<1, 2, 3, 4, 5>>
    /\ worker[1].related_artists = <<1, 2, 3, 4, 5>>
    /\ worker[1].wildly_different = <<>>
    /\ processed_genres = {"pop"}
    /\ failures = MaxFailures

ExampleResult ==
    worker[1].pc \in {"put", "done"} =>
        worker[1].todo \in { <<3, 4, 1>>, <<3, 4, 2>>, <<3, 4, 5>> }

\* C12: with one worker, an artist whose lookup returned is kept exactly
\* when one of its genres is not in processed_genres when it is examined,
\* and its genres are then in the set; the artists are examined in order
\* until related_limit are kept; what is returned is the kept artists
\* followed by other artists of the list, none twice, min(limit, length of
\* the list) in all.  In the example artists 3 and 4 are kept and one of 1, 2
\* and 5 is added.
C12_WildlyDifferentSelection ==
    /\ [][SelectStep]_vars
    /\ [](ExampleStart => [](ExampleResult))

\* C12, witness: the example has been run to its end; 3 and 4 were kept and 5
\* was added.
C12_Witness ==
    /\ related_limit = 3
    /\ worker[1].pc = "put"
    /\ worker[1].todo = <<3, 4, 5>>
    /\ processed_genres = {"pop", "rock", "jazz"}
    /\ failures = MaxFailures

\* Something was done for node n after the check-and-insert: a lookup or a
\* search, a download, a report.
Worked(n) ==
    \/ nodes[n].admitted = "admitted"
    \/ nodes[n].search # "none"
    \/ nodes[n].deezer_id # 0
    \/ nodes[n].launches > 0
    \/ nodes[n].finished # <<>>

\* C13: the downloader is started at most once for an identifier and one
\* script is made for it at most; of the nodes carrying one identifier at
\* most one is ever worked on, so that an artist that failed is not taken up
\* again by a later worker.
C13_NoSecondAttempt ==
    /\ \A n \in NodeIds : nodes[n].launches <= 1 /\ Len(nodes[n].finished) <= 1
    /\ \A n \in NodeIds :
          Worked(n) =>
              \A m \in NodeIds :
                  (n # m /\ nodes[n].spotify_id = nodes[m].spotify_id)
                      => ~Worked(m)
    /\ \A i, j \in 1..Len(batch_files) :
          i # j => batch_files[i][1] # batch_files[j][1]

\* C13, witness: the download of an artist failed and was reported; a node
\* met later with the same identifier was dispatched and left alone.
C13_Witness ==
    \E n, m \in NodeIds :
        /\ n < m
        /\ nodes[n].spotify_id = nodes[m].spotify_id
        /\ Completed(n)
        /\ nodes[n].finished = <<FALSE>>
        /\ nodes[m].admitted = "rejected"
        /\ NoWork(m)

\* A node is taken from the queue in the step.
NodeTaken ==
    /\ artist_queue # <<>>
    /\ \E w \in Workers :
          /\ worker[w].pc = "idle"
          /\ worker'[w].pc = "lock"
          /\ worker'[w].node = Head(artist_queue)

\* The step begins a batch.
BatchBegun == run_pc = "loop" /\ run_pc' = "submit"

\* What C14 asks of a step: a batch begins with no worker in flight and is
\* planned no longer than max_concurrent and than the queue then is; the
\* nodes given out and still to give out of a batch never get more than
\* planned; and a node is taken only inside a batch, when every worker in
\* flight belongs to that batch.
BatchStep ==
    /\ BatchBegun =>
          /\ InFlight = {} /\ futures = {}
          /\ batch_left' <= max_concurrent
          /\ batch_left' <= Len(artist_queue)
    /\ ~BatchBegun =>
          Cardinality(futures') + batch_left' <= Cardinality(futures) + batch_left
    /\ NodeTaken =>
          /\ run_pc = "submit"
          /\ InFlight \subseteq futures
          /\ \A w \in Workers \ futures : worker[w].pc = "idle"

\* C14: at most max_concurrent workers are in flight at any moment, a batch
\* holds at most min(max_concurrent, size of the queue when it begins) nodes,
\* and no node is taken for a batch while a worker of the batch before is
\* still running.
C14_BoundedBatches ==
    /\ [](/\ Cardinality(InFlight) <= max_concurrent
          /\ Cardinality(futures) + batch_left <= max_concurrent
          /\ InFlight \subseteq futures)
    /\ [][BatchStep]_vars

\* C14, witness: as many workers as the setting allows, more than one, are
\* in flight while a node waits on the queue.
C14_Witness ==
    /\ max_concurrent > 1
    /\ Cardinality(InFlight) = max_concurrent
    /\ artist_queue # <<>>

\* Worker w is inside the genre check-and-merge: it has read processed_genres
\* and computed new_genres (line 248) and has not yet merged them (line 252).
InGenreMerge(w) == worker[w].pc = "keep"

\* Two workers of one batch are both keeping an artist on account of the
\* same genre, which neither saw in processed_genres.
GenreRace ==
    \E w1, w2 \in futures :
        /\ w1 # w2
        /\ InGenreMerge(w1)
        /\ InGenreMerge(w2)
        /\ worker[w1].new_genres \cap worker[w2].new_genres # {}

\* C15: a worker inside the genre check-and-merge holds the lock, no two
\* workers are inside it together, and so no two workers are keeping an
\* artist on account of the same new genre.
C15_GenreMergeUnderLock ==
    /\ \A w \in Workers : InGenreMerge(w) => lock = w
    /\ \A w1, w2 \in Workers :
          (w1 # w2 /\ InGenreMerge(w1)) => ~InGenreMerge(w2)
    /\ ~GenreRace

\* C16: the lock is held by a worker only between the test and the insert,
\* never during a catalog call, a download or a callback; its holder can
\* always go on and release it, and a worker waiting for the lock is never
\* stuck for good.
C16_LockOnlyAroundInsert ==
    /\ lock \in Workers \cup {0}
    /\ \A w \in Workers : lock = w => worker[w].pc = "insert"
    /\ lock # 0 => ENABLED Insert(lock)
    /\ (\E w \in Workers : worker[w].pc = "lock") =>
          ENABLED (\E v \in Workers : Enter(v) \/ Insert(v))

\* C16, witness: while one worker waits for its download subprocess, another
\* holds the lock.
C16_Witness ==
    \E w1, w2 \in Workers :
        /\ worker[w1].pc = "wait"
        /\ lock = w2
        /\ worker[w2].pc = "insert"

\* The nodes that have left the queue (every node is queued when it is made).
Dispatched == NodeIds \ Range(artist_queue)

\* C17: nodes leave the queue in the order they were put on it (nodes are
\* numbered in that order), and of two nodes that have left the queue the
\* one that left first is not the deeper one.
C17_BreadthFirst ==
    /\ \A i, j \in 1..Len(artist_queue) :
          i < j => artist_queue[i] < artist_queue[j]
    /\ \A n \in Dispatched : \A q \in Range(artist_queue) : n < q
    /\ \A n, m \in Dispatched :
          n < m => nodes[n].depth <= nodes[m].depth

\* Worker w puts a child on the queue in the step.
ChildPut(w) ==
    /\ worker[w].pc = "put"
    /\ Len(nodes') > Len(nodes)

\* C18 as stated: when a child is put on the queue the cap is not reached,
\* and its parent has then no more children than the cap leaves room for.
C18_ChildrenWithinBudget ==
    [][ \A w \in Workers :
          ChildPut(w) =>
              /\ Cardinality(processed_artists) < max_artists
              /\ Len(nodes'[worker[w].node].children)
                    <= max_artists - Cardinality(processed_artists) ]_vars

\* C18, amended: a worker goes on to its relatives only if the cap is not
\* reached when it makes the test after the download, and then queues at
\* most related_limit children, whatever room the cap leaves.
C18_BudgetTestedOnce ==
    /\ [][ \A w \in Workers :
              (worker[w].pc = "branch" /\ worker'[w].pc \in {"scan", "put"})
                  => Cardinality(processed_artists) < max_artists ]_vars
    /\ [](\A n \in NodeIds : Len(nodes[n].children) <= related_limit)

\* C18, witness: a node has got more children than the cap leaves room for.
C18_Witness ==
    \E n \in NodeIds :
        /\ Completed(n)
        /\ Len(nodes[n].children) > max_artists - Cardinality(processed_artists)
        /\ Cardinality(processed_artists) < max_artists

\* A script is removed in the step.
ScriptRemoved == files \ files' # {}

C20_ProcessorReportsOnce ==
    /\ Len(processor.events) <= 1
    /\ processor.pc = "done" =>
          /\ Len(processor.events) = 1
          /\ "Processing artist" \in processor.output =>
                /\ processor.events[1][1] = DisplayName(processor.spotify_id)
                /\ processor.events[1][2] =
                      ("Successfully downloaded artist" \in processor.output)
          /\ "Error downloading artist" \in processor.output =>
                processor.events[1][2] = FALSE
          /\ processor.name = Unknown =>
                processor.events[1] = << Unknown, FALSE >>

\* C20, witness: both lookups succeeded and the download failed once the
\* script was made; the thread has ended after reporting the failure under
\* the artist's name.
C20_Witness ==
    /\ processor.pc = "done"
    /\ processor.script = "exists"
    /\ processor.events = << << DisplayName(processor.spotify_id), FALSE >> >>

\* C21: the processed-set and the processed-genre-set only grow: in every
\* step of a worker, of the driver and of stop(), each set after the step
\* holds everything it held before the step.
C21_SetsOnlyGrow ==
    [][ /\ processed_artists \subseteq processed_artists'
        /\ processed_genres \subseteq processed_genres' ]_vars

\* C21, witness: a cancelled run that has ended with an artist whose
\* download failed, a rejected duplicate, and both sets still filled.
C21_Witness ==
    /\ run_pc = "done"
    /\ ~is_running
    /\ processed_genres # {}
    /\ \E n \in NodeIds :
          /\ nodes[n].admitted = "rejected"
          /\ nodes[n].spotify_id \in processed_artists
    /\ \E n \in NodeIds :
          /\ nodes[n].admitted = "admitted"
          /\ FALSE \in Range(nodes[n].finished)
          /\ nodes[n].spotify_id \in processed_artists

\* A worker between the creation of its launcher script (line 210-216) and
\* the return of the subprocess started from it (line 220).
Downloading(w) == worker[w].pc = "wait"

\* C22: a launcher script is never removed while its download is in flight:
\* as long as a worker is between creating the script and the return of the
\* subprocess, the script is on disk, whatever stop() does meanwhile.
C22_ScriptKeptWhileInFlight ==
    \A w \in Workers :
        Downloading(w) => BatchFilePath(worker[w].node) \in files

\* C23: the finished signal is the last event of a run: no worker is in
\* flight in the step that emits it, and once it is emitted no step adds an
\* artist-finished event, changes the tree or the queue, or puts a worker
\* back in flight.
C23_FinishedIsLast ==
    [][ /\ finished_count' > finished_count => InFlight = {}
        /\ finished_count > 0 =>
              /\ nodes' = nodes
              /\ artist_queue' = artist_queue
              /\ InFlight' = {} ]_vars

\* C23, witness: a cancelled run has ended after workers had enqueued
\* children and reported artists; finished was signalled once.
C23_Witness ==
    /\ run_pc = "done"
    /\ ~is_running
    /\ finished_count = 1
    /\ \E n \in NodeIds :
          /\ nodes[n].children # <<>>
          /\ nodes[n].finished # <<>>

====
